---------------------------- MODULE Spec2Model ----------------------------
(***************************************************************************)
(* Candidate engagement chatbot: the session manager, the chat and         *)
(* candidate-profile routes, the conversation stage tracker, the language  *)
(* model gateway and the confidence formulas, as state machines.           *)
(*                                                                         *)
(* Conventions                                                             *)
(*  - Time is counted in days: the session manager's expiry is 7 * 24      *)
(*    hours (SessionExpiryDays) and extendSession's default is 24 hours.   *)
(*  - A JavaScript time value is [kind, t]: a Date object or the ISO       *)
(*    string JSON.stringify / JSON.parse leave in its place.  "<" and ">"  *)
(*    between a string and a Date compare NaN and are false.               *)
(*  - undefined is Undef for strings and NoNum for numbers; NaN is NaN.    *)
(*  - Confidences of a profile are counted in twentieths (0.05), the       *)
(*    granularity of calculateProfileConfidence's weights.                 *)
(***************************************************************************)
EXTENDS Integers, Sequences, FiniteSets, TLC

VARIABLES
    sessions,   \* SessionManager.sessions: the Map, as its entries in insertion order
    storage,    \* localStorage["chat-sessions"]: the serialized session list
    now,        \* the clock (new Date(), Date.now()), in days
    issued,     \* identifiers the manager has seen (uuidv4 returns none of them)
    chat,       \* the chat POST requests in flight
    state,      \* ConversationManager.state of a long-lived manager
    lastStage,  \* the stage logged by the most recent processed turn of the session
    llm,        \* LLMClient.generateResponse: its loop position and counters
    merge,      \* one evaluation of mergeProfiles: its arguments and result
    conf        \* one evaluation of a confidence formula: its input and result

vars == <<sessions, storage, now, issued, chat, state, lastStage, llm, merge, conf>>

-----------------------------------------------------------------------------
(* Bounds of the model *)

MaxTime == 2
MaxIds == 1
MaxExtend == 1

(* Program constants *)

SessionExpiryDays == 7

-----------------------------------------------------------------------------
(* JavaScript values *)

Undef == "undefined"
NoNum == 0 - 1
NaN == 0 - 2

Truthy(s) == s # Undef /\ s # ""

Date(t) == [kind |-> "Date", t |-> t]
IsoString(t) == [kind |-> "String", t |-> t]

\* a < b and a > b on time values, b a Date: a string operand makes the
\* comparison one with NaN
DateLt(a, b) == a.kind = "Date" /\ b.kind = "Date" /\ a.t < b.t
DateGt(a, b) == a.kind = "Date" /\ b.kind = "Date" /\ a.t > b.t

\* JSON.stringify followed by JSON.parse of a time value
JsonTime(a) == IsoString(a.t)

\* {...a, ...b}
Spread(a, b) ==
    [k \in (DOMAIN a) \cup (DOMAIN b) |-> IF k \in DOMAIN b THEN b[k] ELSE a[k]]

Range(s) == {s[i] : i \in DOMAIN s}

RECURSIVE SelectIdx(_, _, _)
\* the least index i >= from of s with s[i].id = id, or 0
SelectIdx(s, id, from) ==
    IF from > Len(s) THEN 0
    ELSE IF s[from].id = id THEN from
    ELSE SelectIdx(s, id, from + 1)

Min(a, b) == IF a < b THEN a ELSE b

-----------------------------------------------------------------------------
(* Candidate profiles *)

\* obj.k of an object that may lack the key
NumField(obj, k) == IF k \in DOMAIN obj THEN obj[k] ELSE NoNum
StrField(obj, k) == IF k \in DOMAIN obj THEN obj[k] ELSE Undef

\* String.prototype.toLowerCase on the skill and interest names of the model
ToLowerCase(s) ==
    CASE s = "JS" -> "js"
      [] s = "React" -> "react"
      [] s = "Remote" -> "remote"
      [] OTHER -> s

\* Math.max(a, b): NaN when an operand is undefined or NaN
MathMax(a, b) == IF a < 0 \/ b < 0 THEN NaN ELSE IF a > b THEN a ELSE b

\* x || 0 on a number
OrZero(x) == IF x <= 0 THEN 0 ELSE x

\* the default-empty profile createSession and createSessionFromData build
DefaultProfile(t) ==
    [ name |-> Undef, email |-> Undef, phone |-> Undef,
      experience |-> [years |-> 0, months |-> 0, description |-> ""],
      skills |-> <<>>, education |-> <<>>, interests |-> <<>>,
      salary |-> [expected |-> 0, currency |-> "USD", negotiable |-> TRUE],
      location |-> [current |-> "", willingToRelocate |-> FALSE,
                    preferredLocations |-> <<>>],
      confidence |-> 0,
      lastUpdated |-> Date(t) ]

\* calculateProfileConfidence, in twentieths: the weights 0.1, 0.1, 0.05,
\* 0.15, 0.05, min(0.05 n, 0.25), min(0.15 n, 0.15), 0.05, 0.05, 0.05 over the
\* total 0.25 + 0.2 + 0.25 + 0.15 + 0.15
calculateProfileConfidence(profile) ==
    LET basic == (IF Truthy(profile.name) THEN 2 ELSE 0)
               + (IF Truthy(profile.email) THEN 2 ELSE 0)
               + (IF Truthy(profile.phone) THEN 1 ELSE 0)
        exp == (IF NumField(profile.experience, "years") > 0
                   \/ NumField(profile.experience, "months") > 0 THEN 3 ELSE 0)
             + (IF Truthy(StrField(profile.experience, "description")) THEN 1 ELSE 0)
        skl == IF Len(profile.skills) > 0 THEN Min(Len(profile.skills), 5) ELSE 0
        edu == IF Len(profile.education) > 0
               THEN Min(3 * Len(profile.education), 3) ELSE 0
        add == (IF Len(profile.interests) > 0 THEN 1 ELSE 0)
             + (IF NumField(profile.salary, "expected") > 0 THEN 1 ELSE 0)
             + (IF Truthy(StrField(profile.location, "current")) THEN 1 ELSE 0)
        confidence == basic + exp + skl + edu + add
        totalFactors == 5 + 4 + 5 + 3 + 3
    IN  IF totalFactors > 0 THEN Min((confidence * 20) \div totalFactors, 20) ELSE 0

RECURSIVE KeyIdx(_, _, _)
\* the position of key k in the list of keys ks from position i on, or 0
KeyIdx(ks, k, i) ==
    IF i > Len(ks) THEN 0 ELSE IF ks[i] = k THEN i ELSE KeyIdx(ks, k, i + 1)

\* Map.prototype.set on a Map kept as <<keys, values>> in insertion order
MapSet(m, k, v) ==
    LET i == KeyIdx(m[1], k, 1)
    IN  IF i = 0 THEN <<Append(m[1], k), Append(m[2], v)>>
        ELSE <<m[1], [m[2] EXCEPT ![i] = v]>>

RECURSIVE SkillMap(_, _, _)
\* new Map(skills.map(s => [s.name.toLowerCase(), s])), from position i on
SkillMap(skills, i, m) ==
    IF i > Len(skills) THEN m
    ELSE SkillMap(skills, i + 1, MapSet(m, ToLowerCase(skills[i].name), skills[i]))

RECURSIVE MergeSkills(_, _, _)
\* the loop of mergeProfiles over newProfile.skills, from position i on
MergeSkills(m, newSkills, i) ==
    IF i > Len(newSkills) THEN m
    ELSE LET newSkill == newSkills[i]
             k == ToLowerCase(newSkill.name)
             j == KeyIdx(m[1], k, 1)
             take == j = 0 \/ OrZero(newSkill.confidence) > OrZero(m[2][j].confidence)
         IN  MergeSkills(IF take THEN MapSet(m, k, newSkill) ELSE m, newSkills, i + 1)

RECURSIVE MergeEducation(_, _, _)
\* the loop of mergeProfiles over newProfile.education, from position i on
MergeEducation(m, newEducation, i) ==
    IF i > Len(newEducation) THEN m
    ELSE LET e == newEducation[i]
             k == e.degree \o e.institution
         IN  MergeEducation(IF KeyIdx(m[1], k, 1) = 0 THEN MapSet(m, k, e) ELSE m,
                            newEducation, i + 1)

RECURSIVE EducationMap(_, _, _)
EducationMap(education, i, m) ==
    IF i > Len(education) THEN m
    ELSE EducationMap(education, i + 1,
                      MapSet(m, education[i].degree \o education[i].institution,
                             education[i]))

\* newProfile.interests.filter(i => !existingInterests.has(i.toLowerCase()))
NewInterests(existing, new) ==
    LET lower == {ToLowerCase(existing[i]) : i \in DOMAIN existing}
    IN  SelectSeq(new, LAMBDA x : ToLowerCase(x) \notin lower)

\* what "merge" would be if new scalars replaced the existing ones
MergeOverwritingScalars(existingProfile, newProfile) ==
    Spread(existingProfile, newProfile)

\* the "merge" branch of mergeProfiles
MergeStrategyMerge(existingProfile, newProfile) ==
    LET has(k) == k \in DOMAIN newProfile
        scalar(k) == IF has(k) /\ Truthy(newProfile[k]) /\ ~Truthy(existingProfile[k])
                     THEN newProfile[k] ELSE existingProfile[k]
        old == existingProfile
    IN  [ old EXCEPT
          !.name = scalar("name"),
          !.email = scalar("email"),
          !.phone = scalar("phone"),
          !.experience =
              IF has("experience")
              THEN [ years |-> MathMax(NumField(old.experience, "years"),
                                       OrZero(NumField(newProfile.experience, "years"))),
                     months |-> MathMax(NumField(old.experience, "months"),
                                        OrZero(NumField(newProfile.experience, "months"))),
                     description |->
                         IF Truthy(StrField(newProfile.experience, "description"))
                         THEN newProfile.experience.description
                         ELSE StrField(old.experience, "description") ]
              ELSE @,
          !.skills =
              IF has("skills")
              THEN MergeSkills(SkillMap(old.skills, 1, <<<<>>, <<>>>>),
                               newProfile.skills, 1)[2]
              ELSE @,
          !.education =
              IF has("education")
              THEN MergeEducation(EducationMap(old.education, 1, <<<<>>, <<>>>>),
                                  newProfile.education, 1)[2]
              ELSE @,
          !.interests =
              IF has("interests")
              THEN old.interests \o NewInterests(old.interests, newProfile.interests)
              ELSE @,
          !.salary =
              IF has("salary") /\ NumField(newProfile.salary, "expected") > 0
              THEN newProfile.salary ELSE @,
          !.location =
              IF has("location") THEN Spread(old.location, newProfile.location) ELSE @ ]

\* the "append" branch of mergeProfiles
MergeStrategyAppend(existingProfile, newProfile) ==
    LET has(k) == k \in DOMAIN newProfile
    IN  [ existingProfile EXCEPT
          !.skills = IF has("skills") THEN @ \o newProfile.skills ELSE @,
          !.education = IF has("education") THEN @ \o newProfile.education ELSE @,
          !.interests = IF has("interests") THEN @ \o newProfile.interests ELSE @ ]

\* mergeProfiles(existingProfile, newProfile, strategy) evaluated at time t
mergeProfiles(existingProfile, newProfile, strategy, t) ==
    LET mergedProfile ==
            CASE strategy = "replace" -> Spread(existingProfile, newProfile)
              [] strategy = "merge" -> MergeStrategyMerge(existingProfile, newProfile)
              [] strategy = "append" -> MergeStrategyAppend(existingProfile, newProfile)
    IN  [ mergedProfile EXCEPT
          !.confidence = calculateProfileConfidence(mergedProfile),
          !.lastUpdated = Date(t) ]

-----------------------------------------------------------------------------
(* Sessions: session-utils *)

IdNames == <<"s1", "s2", "s3", "s4">>
Ids == {IdNames[i] : i \in 1..MaxIds}

\* the empty object {}
Empty == [k \in {} |-> 0]

\* a candidateProfile of null
NullProfile == [null |-> TRUE]
ProfilePresent(p) == "null" \notin DOMAIN p

\* validateSession(session) of session-utils at time t
validateSession(session, t) ==
    /\ ~DateLt(session.expiresAt, Date(t))
    /\ Truthy(session.id)
    /\ ProfilePresent(session.candidateProfile)
    /\ Truthy(session.jobContext)

\* isSessionExpired(session) at time t
isSessionExpired(session, t) == DateLt(session.expiresAt, Date(t))

\* cleanupExpiredSessions(sessions) of session-utils at time t
cleanupExpiredSessionsList(list, t) ==
    SelectSeq(list, LAMBDA session : DateGt(session.expiresAt, Date(t)))

markSessionAsCompleted(session, t) ==
    [session EXCEPT !.status = "completed", !.updatedAt = Date(t)]

markSessionAsExpiredUtil(session, t) ==
    [session EXCEPT !.status = "expired", !.updatedAt = Date(t)]

\* JSON.parse(JSON.stringify(session)): every Date becomes its ISO string
JsonSession(session) ==
    [ session EXCEPT
      !.createdAt = JsonTime(@),
      !.updatedAt = JsonTime(@),
      !.expiresAt = JsonTime(@),
      !.candidateProfile =
          IF ProfilePresent(@) THEN [@ EXCEPT !.lastUpdated = JsonTime(@)] ELSE @ ]

JsonSessions(list) == [i \in DOMAIN list |-> JsonSession(list[i])]

\* getSessionsFromStorage() at time t: the parsed item, filtered
getSessionsFromStorage(item, t) == cleanupExpiredSessionsList(item, t)

\* saveSessionToStorage(session) at time t: the item it writes
saveSessionToStorage(item, session, t) ==
    LET list == getSessionsFromStorage(item, t)
        existingIndex == SelectIdx(list, session.id, 1)
        updated == IF existingIndex > 0 THEN [list EXCEPT ![existingIndex] = session]
                   ELSE Append(list, session)
    IN  JsonSessions(cleanupExpiredSessionsList(updated, t))

\* importSession(data) of session-utils: data parsed, kept when it validates
importSessionUtil(data, t) == IF validateSession(data, t) THEN <<data>> ELSE <<>>

-----------------------------------------------------------------------------
(* Sessions: the SessionManager's Map, as <<key, value>> entries *)

RECURSIVE EntryIdx(_, _, _)
EntryIdx(m, key, i) ==
    IF i > Len(m) THEN 0 ELSE IF m[i].key = key THEN i ELSE EntryIdx(m, key, i + 1)

Has(m, key) == EntryIdx(m, key, 1) > 0
Get(m, key) == m[EntryIdx(m, key, 1)].val
Keys(m) == {m[i].key : i \in DOMAIN m}
Values(m) == [i \in DOMAIN m |-> m[i].val]

\* this.sessions.set(key, val)
Set(m, key, val) ==
    IF Has(m, key) THEN [m EXCEPT ![EntryIdx(m, key, 1)].val = val]
    ELSE Append(m, [key |-> key, val |-> val])

\* this.sessions.delete(key)
Delete(m, key) == SelectSeq(m, LAMBDA e : e.key # key)

\* saveAllSessionsToStorage() at time t: the item it writes
saveAllSessionsToStorage(m, t) == JsonSessions(cleanupExpiredSessionsList(Values(m), t))

\* SessionManager.validateSession(sessionId)
ValidateSession(m, sessionId, t) ==
    Has(m, sessionId) /\ validateSession(Get(m, sessionId), t)

\* SessionManager.getSession(sessionId): the session, or none for null
GetSession(m, sessionId, t) ==
    IF Has(m, sessionId) /\ validateSession(Get(m, sessionId), t)
    THEN <<Get(m, sessionId)>> ELSE <<>>

\* SessionManager.getActiveSessions()
GetActiveSessions(m, t) ==
    SelectSeq(Values(m), LAMBDA session :
        session.status = "active" /\ validateSession(session, t))

\* the session createSession builds
NewSession(sessionId, candidateProfile, jobContext, t) ==
    [ id |-> sessionId,
      messages |-> <<>>,
      candidateProfile |-> Spread(DefaultProfile(t), candidateProfile),
      jobContext |-> IF Truthy(jobContext) THEN jobContext ELSE "jobDescription",
      status |-> "active",
      createdAt |-> Date(t),
      updatedAt |-> Date(t),
      expiresAt |-> Date(t + SessionExpiryDays) ]

\* the session createSessionFromData builds; sessionId is sessionData.id or a
\* new uuid
SessionFromData(sessionId, sessionData, t) ==
    LET has(k) == k \in DOMAIN sessionData
    IN  [ id |-> sessionId,
          messages |-> IF has("messages") THEN sessionData.messages ELSE <<>>,
          candidateProfile |->
              IF has("candidateProfile") /\ ProfilePresent(sessionData.candidateProfile)
              THEN sessionData.candidateProfile ELSE DefaultProfile(t),
          jobContext |->
              IF has("jobContext") /\ Truthy(sessionData.jobContext)
              THEN sessionData.jobContext ELSE "jobDescription",
          status |-> "active",
          createdAt |-> IF has("createdAt") THEN sessionData.createdAt ELSE Date(t),
          updatedAt |-> Date(t),
          expiresAt |-> IF has("expiresAt") THEN sessionData.expiresAt
                        ELSE Date(t + SessionExpiryDays) ]

\* the session updateSession stores
UpdatedSession(session, updates, t) ==
    Spread(Spread(session, updates), [updatedAt |-> Date(t)])

\* SessionManager.updateSession(sessionId, updates): the new Map and item
UpdateSessionMap(m, sessionId, updates, t) ==
    IF Has(m, sessionId)
    THEN Set(m, sessionId, UpdatedSession(Get(m, sessionId), updates, t))
    ELSE m

UpdateSessionItem(m, item, sessionId, updates, t) ==
    IF Has(m, sessionId)
    THEN saveSessionToStorage(item, UpdatedSession(Get(m, sessionId), updates, t), t)
    ELSE item

-----------------------------------------------------------------------------
(* The SessionManager's operations *)

Statuses == {"active", "completed", "expired"}

\* partial seed profiles a caller of createSession passes
Seeds == { Empty, [name |-> "Ann"], [experience |-> [years |-> 3]] }

\* partial sessions a caller of createSessionFromData passes
SessionDatas ==
    {Empty} \cup {[id |-> i, expiresAt |-> Date(t)] : i \in Ids, t \in 0..MaxTime}

\* updates a caller of updateSession passes (the session PATCH route passes the
\* request's JSON body, whose id may be that of another session)
SessionUpdates ==
    {[status |-> st] : st \in Statuses}
    \cup {[candidateProfile |-> NullProfile], [expiresAt |-> IsoString(0)]}
    \cup {[id |-> i] : i \in Ids \cup {IdNames[MaxIds + 1]}}

\* the parsed "session" member of the JSON text a caller of importSession passes
ImportDatas ==
    {[JsonSession(NewSession(i, Empty, Undef, 0)) EXCEPT
          !.status = st, !.expiresAt = IsoString(0),
          !.candidateProfile = IF withProfile THEN @ ELSE NullProfile] :
        i \in Ids, st \in {"active", "completed"}, withProfile \in BOOLEAN}

OtherUnchanged == UNCHANGED <<chat, state, lastStage, llm, merge, conf>>

CreateSession(candidateProfile, jobContext) ==
    \E sessionId \in Ids \ issued :
        LET session == NewSession(sessionId, candidateProfile, jobContext, now)
        IN  /\ sessions' = Set(sessions, sessionId, session)
            /\ storage' = saveSessionToStorage(storage, session, now)
            /\ issued' = issued \cup {sessionId}
            /\ UNCHANGED now
            /\ OtherUnchanged

CreateSessionFromData(sessionData) ==
    \E sessionId \in Ids :
        /\ IF "id" \in DOMAIN sessionData /\ Truthy(sessionData.id)
           THEN sessionId = sessionData.id
           ELSE sessionId \notin issued
        /\ LET session == SessionFromData(sessionId, sessionData, now)
           IN  /\ sessions' = Set(sessions, sessionId, session)
               /\ storage' = saveSessionToStorage(storage, session, now)
        /\ issued' = issued \cup {sessionId}
        /\ UNCHANGED now
        /\ OtherUnchanged

ValidateAllSessions ==
    /\ sessions' = SelectSeq(sessions, LAMBDA e : validateSession(e.val, now))
    /\ storage' = saveAllSessionsToStorage(sessions', now)
    /\ UNCHANGED <<now, issued>>
    /\ OtherUnchanged

CleanupExpiredSessions ==
    /\ sessions' = SelectSeq(sessions, LAMBDA e : ~isSessionExpired(e.val, now))
    /\ storage' = saveAllSessionsToStorage(sessions', now)
    /\ UNCHANGED <<now, issued>>
    /\ OtherUnchanged

\* this.sessions.set(sessionId, session); saveSessionToStorage(session)
Store(sessionId, session) ==
    /\ sessions' = Set(sessions, sessionId, session)
    /\ storage' = saveSessionToStorage(storage, session, now)
    /\ UNCHANGED <<now, issued>>
    /\ OtherUnchanged

CompleteSession(sessionId) ==
    IF Has(sessions, sessionId)
    THEN Store(sessionId, markSessionAsCompleted(Get(sessions, sessionId), now))
    ELSE UNCHANGED vars

MarkSessionAsExpired(sessionId) ==
    IF Has(sessions, sessionId)
    THEN Store(sessionId, markSessionAsExpiredUtil(Get(sessions, sessionId), now))
    ELSE UNCHANGED vars

HandleSessionExpiration(sessionId) ==
    IF Has(sessions, sessionId) /\ isSessionExpired(Get(sessions, sessionId), now)
    THEN MarkSessionAsExpired(sessionId)
    ELSE UNCHANGED vars

DeleteSession(sessionId) ==
    IF Has(sessions, sessionId)
    THEN /\ sessions' = Delete(sessions, sessionId)
         /\ storage' = saveAllSessionsToStorage(sessions', now)
         /\ UNCHANGED <<now, issued>>
         /\ OtherUnchanged
    ELSE UNCHANGED vars

\* extendSession(sessionId, hours), hours = 24 * days; expiresAt.getTime() of
\* a string throws, and nothing is stored
ExtendSession(sessionId, days) ==
    IF Has(sessions, sessionId) /\ Get(sessions, sessionId).expiresAt.kind = "Date"
    THEN LET session == Get(sessions, sessionId)
         IN  /\ session.expiresAt.t + days <= MaxTime + SessionExpiryDays + MaxExtend
             /\ Store(sessionId, [session EXCEPT
                                    !.expiresAt = Date(@.t + days),
                                    !.updatedAt = Date(now)])
    ELSE UNCHANGED vars

UpdateSession(sessionId, updates) ==
    /\ sessions' = UpdateSessionMap(sessions, sessionId, updates, now)
    /\ storage' = UpdateSessionItem(sessions, storage, sessionId, updates, now)
    /\ UNCHANGED <<now, issued>>
    /\ OtherUnchanged

ImportSession(data) ==
    LET session == importSessionUtil(data, now)
    IN  IF session # <<>>
        THEN /\ Store(session[1].id, session[1])
        ELSE UNCHANGED vars

ClearAllSessions ==
    /\ sessions' = <<>>
    /\ storage' = <<>>
    /\ UNCHANGED <<now, issued>>
    /\ OtherUnchanged

RECURSIVE LoadAll(_, _, _, _)
\* the forEach of loadSessionsFromStorage, from position i of the list on
LoadAll(m, list, i, t) ==
    IF i > Len(list) THEN m
    ELSE LoadAll(IF validateSession(list[i], t) THEN Set(m, list[i].id, list[i]) ELSE m,
                 list, i + 1, t)

\* new SessionManager() of a restarted process or reloaded page
LoadSessionsFromStorage ==
    /\ sessions' = LoadAll(<<>>, getSessionsFromStorage(storage, now), 1, now)
    /\ UNCHANGED <<storage, now, issued>>
    /\ OtherUnchanged

Tick ==
    /\ \E t \in (now + 1)..MaxTime : now' = t
    /\ UNCHANGED <<sessions, storage, issued>>
    /\ OtherUnchanged

-----------------------------------------------------------------------------
(* The session manager on its own *)

NoChat == [pc |-> "idle"]
NoState ==
    [currentStage |-> "greeting", stageProgress |-> 0, stageTransitions |-> 0,
     lastActivity |-> 0]
NoLlm == [pc |-> "idle"]
NoMerge == [pc |-> "idle"]
NoConf == [pc |-> "idle"]

Init ==
    /\ sessions = <<>>
    /\ storage = <<>>
    /\ now = 0
    /\ issued = {}
    /\ chat = NoChat
    /\ state = NoState
    /\ lastStage = "greeting"
    /\ llm = NoLlm
    /\ merge = NoMerge
    /\ conf = NoConf

Next ==
    \/ \E seed \in Seeds : CreateSession(seed, Undef)
    \/ \E data \in SessionDatas : CreateSessionFromData(data)
    \/ ValidateAllSessions
    \/ CleanupExpiredSessions
    \/ \E id \in Ids : CompleteSession(id)
    \/ \E id \in Ids : MarkSessionAsExpired(id)
    \/ \E id \in Ids : HandleSessionExpiration(id)
    \/ \E id \in Ids : DeleteSession(id)
    \/ \E id \in Ids, days \in 1..MaxExtend : ExtendSession(id, days)
    \/ \E id \in Ids, updates \in SessionUpdates : UpdateSession(id, updates)
    \/ \E data \in ImportDatas : ImportSession(data)
    \/ ClearAllSessions
    \/ LoadSessionsFromStorage
    \/ Tick

Spec == Init /\ [][Next]_vars

-----------------------------------------------------------------------------
(* Properties of the session manager *)

Terminal == {"completed", "expired"}

\* C2: completed and expired are terminal: no operation of the manager takes
\* a stored session whose status is completed or expired to another status
\* while it stays stored.
C2_TerminalStatusKept ==
    [][\A i \in DOMAIN sessions :
          (sessions[i].val.status \in Terminal /\ Has(sessions', sessions[i].key))
              => Get(sessions', sessions[i].key).status = sessions[i].val.status]_vars

\* C4: a stored session whose expiry time lies before the clock fails
\* validateSession, is not returned by getSession and is not listed by
\* getActiveSessions.
C4_ExpiredNotServed ==
    \A i \in DOMAIN sessions :
        LET session == sessions[i].val
        IN  session.expiresAt.t < now
                => /\ ~ValidateSession(sessions, sessions[i].key, now)
                   /\ GetSession(sessions, sessions[i].key, now) = <<>>
                   /\ session \notin Range(GetActiveSessions(sessions, now))

\* C5: validateSession(id) of a stored session whose expiresAt is a Date is
\* true exactly when expiresAt is strictly after the clock and the profile
\* and the job context are present; at expiresAt = now the session is invalid.
C5_ValidIffStrictlyBeforeExpiry ==
    \A id \in Ids :
        (Has(sessions, id) /\ Get(sessions, id).expiresAt.kind = "Date")
            => (ValidateSession(sessions, id, now)
                    <=> /\ Get(sessions, id).expiresAt.t > now
                        /\ ProfilePresent(Get(sessions, id).candidateProfile)
                        /\ Truthy(Get(sessions, id).jobContext))

\* C7: the confidence stored in a session's candidate profile equals
\* calculateProfileConfidence of that profile.
C7_StoredConfidenceIsRecomputed ==
    \A i \in DOMAIN sessions :
        LET profile == sessions[i].val.candidateProfile
        IN  ProfilePresent(profile)
                => profile.confidence = calculateProfileConfidence(profile)

\* a cleanup that reports the size of the map
ReturnsSessionCount(m, t) == Len(m)

\* the number cleanupExpiredSessions() returns at time t: expiredSessions.length
cleanupExpiredSessionsReturn(m, t) ==
    Len(SelectSeq(m, LAMBDA e : isSessionExpired(e.val, t)))

\* C13: run in any reachable state, cleanupExpiredSessions removes exactly
\* the stored sessions whose expiry time lies before the clock, keeps every
\* other session as it is, and returns the number of sessions it removed.
C13_CleanupRemovesExactlyExpired ==
    LET kept == SelectSeq(sessions, LAMBDA e : ~isSessionExpired(e.val, now))
    IN  /\ kept = SelectSeq(sessions, LAMBDA e : ~(e.val.expiresAt.t < now))
        /\ cleanupExpiredSessionsReturn(sessions, now) = Len(sessions) - Len(kept)

validateSessionAccess(m, sessionId, t1, t2) ==
    IF GetSession(m, sessionId, t1) = <<>> THEN "SESSION_NOT_FOUND"
    ELSE IF ~ValidateSession(m, sessionId, t2) THEN "SESSION_INVALID"
    ELSE "valid"

\* validateSession(sessionId) of the chat route
chatValidateSession(m, sessionId, t1, t2) ==
    IF GetSession(m, sessionId, t1) = <<>> THEN "SESSION_NOT_FOUND"
    ELSE IF ~ValidateSession(m, sessionId, t2) THEN "SESSION_INVALID"
    ELSE "valid"

\* C15: for a session id that is stored but fails validation, the lookup of
\* the session route and of the chat route reports SESSION_INVALID, not the
\* SESSION_NOT_FOUND it reports for an id that is not stored.
C15_InvalidDistinctFromNotFound ==
    \A id \in Ids :
        (Has(sessions, id) /\ ~ValidateSession(sessions, id, now))
            => \A t2 \in now..MaxTime :
                   /\ validateSessionAccess(sessions, id, now, t2) = "SESSION_INVALID"
                   /\ chatValidateSession(sessions, id, now, t2) = "SESSION_INVALID"

\* C28: once completeSession or markSessionAsExpired has succeeded for a
\* session, the chat route's session check does not accept a message for it.
C28_TerminalSessionTakesNoTurn ==
    [][\A id \in Ids :
          (Has(sessions, id) /\ (CompleteSession(id) \/ MarkSessionAsExpired(id)))
              => chatValidateSession(sessions', id, now', now') # "valid"]_vars

\* C29: every entry of the session Map is stored under the key that is its
\* session's id, and no two stored sessions have the same id.
C29_KeyIsSessionId ==
    /\ \A i \in 1..Len(sessions) : sessions[i].key = sessions[i].val.id
    /\ \A i, j \in 1..Len(sessions) :
           sessions[i].val.id = sessions[j].val.id => i = j

\* C20: createSession stores its session under a fresh id with status active,
\* no messages and expiresAt seven days after creation; without a seed the
\* profile is the default one with confidence 0, and with a seed the profile
\* still has experience.years and months, salary.expected, currency and
\* negotiable, location.current and willingToRelocate.
C20_CreateSessionDefaults ==
    [][\A seed \in Seeds :
          CreateSession(seed, Undef)
              => \E id \in Ids \ issued :
                     LET session == Get(sessions', id)
                         profile == session.candidateProfile
                     IN  /\ issued' = issued \cup {id}
                         /\ Has(sessions', id)
                         /\ session.id = id
                         /\ session.status = "active"
                         /\ session.messages = <<>>
                         /\ session.expiresAt = Date(now + SessionExpiryDays)
                         /\ (seed = Empty) => /\ profile = DefaultProfile(now)
                                              /\ profile.confidence = 0
                         /\ {"years", "months"} \subseteq DOMAIN profile.experience
                         /\ {"expected", "currency", "negotiable"}
                                \subseteq DOMAIN profile.salary
                         /\ {"current", "willingToRelocate"}
                                \subseteq DOMAIN profile.location]_vars

\* what completeSession, markSessionAsExpired, deleteSession and
\* updateSession return for sessionId
FoundReturn(m, sessionId) == IF Has(m, sessionId) THEN "true" ELSE "false"

\* what extendSession returns for sessionId; expiresAt.getTime() of a stored
\* session whose expiresAt is a string throws a TypeError
extendSessionReturn(m, sessionId) ==
    IF ~Has(m, sessionId) THEN "false"
    ELSE IF Get(m, sessionId).expiresAt.kind = "Date" THEN "true"
    ELSE "throws"

\* C16: extendSession, completeSession, markSessionAsExpired, deleteSession
\* and updateSession each return false for an id that is not stored and true
\* for one that is.
C16_ReturnsTellWhetherStored ==
    \A id \in Ids :
        /\ FoundReturn(sessions, id) = (IF Has(sessions, id) THEN "true" ELSE "false")
        /\ extendSessionReturn(sessions, id)
               = (IF Has(sessions, id) THEN "true" ELSE "false")

-----------------------------------------------------------------------------
(* The chat route and the candidate-profile route on one session manager *)

MaxRequests == 2

Requests == 1..MaxRequests

\* the assistant message the chat route builds for request r, and the user
\* message of that request
AssistantMessage(r) == [role |-> "assistant", request |-> r]
UserMessage(r) == [role |-> "user", request |-> r]

\* partial profiles a caller of the candidate-profile PUT passes
ProfileDatas == { [name |-> "Bob"], [email |-> "a@b.co"], [phone |-> "555"] }

MergeStrategies == {"merge", "replace", "append"}

\* confidence thresholds of a PUT, in twentieths; 0 stands for none given
Thresholds == {0, 4}

\* validateProfile(profile).isValid on the well-formed fields of ProfileDatas
validateProfileIsValid(profile) ==
    Truthy(StrField(profile, "name")) \/ Truthy(StrField(profile, "email"))

IdleRequest == [pc |-> "idle", sessionId |-> Undef, session |-> <<>>, status |-> 0]

\* chat POST up to its await of the conversation manager: the session check,
\* then the session read at line 226 is held across the await
ChatPostBegin(r, sessionId) ==
    /\ chat[r].pc = "idle"
    /\ LET session == GetSession(sessions, sessionId, now)
       IN  chat' = [chat EXCEPT ![r] =
                       IF session = <<>>
                       THEN [pc |-> "done", sessionId |-> sessionId,
                             session |-> <<>>, status |-> 400]
                       ELSE [pc |-> "await", sessionId |-> sessionId,
                             session |-> session, status |-> 0]]
    /\ UNCHANGED <<sessions, storage, now, issued, state, lastStage, llm, merge, conf>>

\* the session the chat route hands to updateSession
ChatUpdatedSession(session, r, t) ==
    Spread(session, [messages |-> Append(session.messages, AssistantMessage(r)),
                     updatedAt |-> Date(t)])

\* chat POST from the await on: the conversation manager's promise resolves
\* (lines 254-292) or rejects (lines 293-305)
ChatPostResume(r, resolved) ==
    /\ chat[r].pc = "await"
    /\ IF resolved
       THEN LET updatedSession == ChatUpdatedSession(chat[r].session[1], r, now)
            IN  /\ sessions' = UpdateSessionMap(sessions, chat[r].sessionId,
                                                updatedSession, now)
                /\ storage' = UpdateSessionItem(sessions, storage, chat[r].sessionId,
                                                updatedSession, now)
                /\ chat' = [chat EXCEPT ![r].pc = "done", ![r].status = 200]
       ELSE /\ chat' = [chat EXCEPT ![r].pc = "done", ![r].status = 500]
            /\ UNCHANGED <<sessions, storage>>
    /\ UNCHANGED <<now, issued, state, lastStage, llm, merge, conf>>

\* candidate-profile PUT with a sessionId: one synchronous run from the
\* profile validation to updateSession
\* a threshold check that rejects nothing
BelowThresholdNever(mergedProfile, confidenceThreshold) == FALSE

\* confidenceThreshold && mergedProfile.confidence < confidenceThreshold
BelowThreshold(mergedProfile, confidenceThreshold) ==
    confidenceThreshold # 0 /\ mergedProfile.confidence < confidenceThreshold

\* candidate-profile PUT with a sessionId on the Map m and the stored item:
\* the Map and the item it leaves, and its response
PUT(m, item, sessionId, newProfileData, mergeStrategy, confidenceThreshold, t) ==
    LET session == GetSession(m, sessionId, t)
        mergedProfile == mergeProfiles(session[1].candidateProfile, newProfileData,
                                       mergeStrategy, t)
        updatedSession == Spread(session[1], [candidateProfile |-> mergedProfile,
                                              updatedAt |-> Date(t)])
        kept(response) == [sessions |-> m, storage |-> item, response |-> response]
    IN  IF ~validateProfileIsValid(newProfileData)
        THEN kept([status |-> 400, code |-> "PROFILE_VALIDATION_ERROR"])
        ELSE IF session = <<>>
        THEN kept([status |-> 404, code |-> "SESSION_NOT_FOUND"])
        ELSE IF BelowThreshold(mergedProfile, confidenceThreshold)
        THEN kept([status |-> 400, code |-> "LOW_CONFIDENCE",
                   currentConfidence |-> mergedProfile.confidence,
                   threshold |-> confidenceThreshold])
        ELSE [sessions |-> UpdateSessionMap(m, sessionId, updatedSession, t),
              storage |-> UpdateSessionItem(m, item, sessionId, updatedSession, t),
              response |-> [status |-> 200, profile |-> mergedProfile,
                            sessionId |-> sessionId]]

ProfilePut(sessionId, newProfileData, mergeStrategy, confidenceThreshold) ==
    LET put == PUT(sessions, storage, sessionId, newProfileData, mergeStrategy,
                   confidenceThreshold, now)
    IN  /\ sessions' = put.sessions
        /\ storage' = put.storage
        /\ UNCHANGED <<now, issued, chat, state, lastStage, llm, merge, conf>>

InitChat ==
    /\ sessions = <<>>
    /\ storage = <<>>
    /\ now = 0
    /\ issued = {}
    /\ chat = [r \in Requests |-> IdleRequest]
    /\ state = NoState
    /\ lastStage = "greeting"
    /\ llm = NoLlm
    /\ merge = NoMerge
    /\ conf = NoConf

NextChat ==
    \/ \E seed \in Seeds : CreateSession(seed, Undef)
    \/ \E r \in Requests, id \in Ids : ChatPostBegin(r, id)
    \/ \E r \in Requests, resolved \in BOOLEAN : ChatPostResume(r, resolved)
    \/ \E id \in Ids, data \in ProfileDatas, strategy \in MergeStrategies,
          threshold \in Thresholds : ProfilePut(id, data, strategy, threshold)
    \/ Tick

SpecChat == InitChat /\ [][NextChat]_vars

\* the stored session of id, when there is one
Stored(id) == Get(sessions, id)

-----------------------------------------------------------------------------
(* The candidate-profile PUT with a confidence threshold *)

NextPut ==
    \/ \E seed \in Seeds : CreateSession(seed, Undef)
    \/ \E id \in Ids, data \in ProfileDatas, strategy \in MergeStrategies,
          threshold \in Thresholds \cup {2} : ProfilePut(id, data, strategy, threshold)
    \/ Tick

SpecPut == InitChat /\ [][NextPut]_vars

\* C17: a PUT with a confidence threshold whose merged profile's confidence is
\* below the threshold is answered 400 LOW_CONFIDENCE with the merged
\* confidence and the threshold and leaves the Map and the stored item as they
\* were; otherwise the merged profile is stored with a fresh updatedAt.
C17_ThresholdGatesProfileUpdate ==
    \A id \in Ids, data \in ProfileDatas, strategy \in MergeStrategies,
       threshold \in {2, 4} :
        LET session == GetSession(sessions, id, now)
            merged == mergeProfiles(session[1].candidateProfile, data, strategy, now)
            put == PUT(sessions, storage, id, data, strategy, threshold, now)
        IN  (validateProfileIsValid(data) /\ session # <<>>)
                => IF merged.confidence < threshold
                   THEN /\ put.response = [status |-> 400, code |-> "LOW_CONFIDENCE",
                                           currentConfidence |-> merged.confidence,
                                           threshold |-> threshold]
                        /\ put.sessions = sessions
                        /\ put.storage = storage
                   ELSE /\ put.response.status = 200
                        /\ Get(put.sessions, id).candidateProfile = merged
                        /\ Get(put.sessions, id).updatedAt = Date(now)

\* a stored session on which one PUT is rejected at threshold 4 and another,
\* with a merged confidence of exactly 4, is stored
C17_Witness ==
    \E id \in Ids, d1, d2 \in ProfileDatas :
        /\ GetSession(sessions, id, now) # <<>>
        /\ validateProfileIsValid(d1) /\ validateProfileIsValid(d2)
        /\ PUT(sessions, storage, id, d1, "merge", 4, now).response.status = 400
        /\ mergeProfiles(Get(sessions, id).candidateProfile, d2, "merge", now).confidence = 4
        /\ PUT(sessions, storage, id, d2, "merge", 4, now).sessions # sessions
        /\ Get(sessions, id).candidateProfile.name = "Bob"

-----------------------------------------------------------------------------
(* The conversation manager's stage tracker *)

Stages == <<"greeting", "qualification", "assessment", "closing", "completed">>

\* the position of a stage in greeting < qualification < ... < completed
StageIdx(stage) == CHOOSE i \in DOMAIN Stages : Stages[i] = stage

\* user messages of the model, in lower case
Messages ==
    { "hello", "interested in the position", "years of experience", "good fit",
      "a question", "ready to proceed", "thank you", "next step", "ok" }

\* the words calculateProgressIncrement looks for that occur in a message
Words(message) ==
    CASE message = "hello" -> {"hello"}
      [] message = "interested in the position" -> {"interested", "position"}
      [] message = "years of experience" -> {"years", "experience"}
      [] message = "good fit" -> {"fit"}
      [] message = "a question" -> {"question"}
      [] message = "ready to proceed" -> {"ready", "proceed"}
      [] message = "thank you" -> {"thank"}
      [] message = "next step" -> {"next", "step"}
      [] OTHER -> {}

\* lowerMessage.includes(word)
Includes(message, word) == word \in Words(ToLowerCase(message))

\* initializeConversationState() at time t; stageTransitions is absent from
\* the object and read as (undefined || 0)
initializeConversationState(t) == [NoState EXCEPT !.lastActivity = t]

\* an increment below the least one of the qualification stage
calculateProgressIncrementSlow(currentStage, message) == 4

calculateProgressIncrement(currentStage, message) ==
    LET any(ws) == \E w \in ws : Includes(message, w)
    IN  CASE currentStage = "greeting" ->
                 IF any({"hello", "hi"}) THEN 25
                 ELSE IF any({"interested", "position"}) THEN 50 ELSE 10
          [] currentStage = "qualification" ->
                 IF any({"experience", "years", "skills", "technologies",
                         "education", "degree", "projects", "work"}) THEN 20 ELSE 5
          [] currentStage = "assessment" ->
                 IF any({"fit", "suitable"}) THEN 30
                 ELSE IF any({"concern", "question"}) THEN 20
                 ELSE IF any({"ready", "proceed"}) THEN 50 ELSE 10
          [] currentStage = "closing" ->
                 IF any({"thank", "bye"}) THEN 100
                 ELSE IF any({"next", "step"}) THEN 50 ELSE 25
          [] OTHER -> 10

\* a transition that keeps the progress of the stage it leaves
transitionKeepingProgress(st) ==
    IF st.currentStage = "completed" THEN st
    ELSE [ st EXCEPT !.currentStage = Stages[StageIdx(@) + 1],
                     !.stageTransitions = @ + 1 ]

transitionToNextStage(st) ==
    LET currentStage == st.currentStage
        nextStage == CASE currentStage = "greeting" -> "qualification"
                       [] currentStage = "qualification" -> "assessment"
                       [] currentStage = "assessment" -> "closing"
                       [] OTHER -> "completed"
    IN  IF nextStage # currentStage
        THEN [ st EXCEPT !.currentStage = nextStage, !.stageProgress = 0,
                         !.stageTransitions = @ + 1 ]
        ELSE st

\* updateConversationState(message) at time t
updateConversationState(st, message, t) ==
    LET progressIncrement == calculateProgressIncrement(st.currentStage, message)
        progressed == [st EXCEPT !.lastActivity = t,
                                 !.stageProgress = Min(100, @ + progressIncrement)]
    IN  IF progressed.stageProgress >= 100 THEN transitionToNextStage(progressed)
        ELSE progressed

ConvUnchanged == UNCHANGED <<sessions, storage, now, issued, chat, llm, merge, conf>>

\* the clock of the conversation manager advances
ConvTick ==
    /\ \E t \in (now + 1)..MaxTime : now' = t
    /\ UNCHANGED <<sessions, storage, issued, chat, state, lastStage, llm, merge, conf>>

\* processUserMessage(userMessage) on the manager that serves the session
ProcessUserMessage(userMessage) ==
    /\ state' = updateConversationState(state, userMessage, now)
    /\ lastStage' = state'.currentStage
    /\ ConvUnchanged

\* a turn served by the chat POST: new ConversationManager(session), then the
\* turn on that manager
ChatPostTurn(message) ==
    /\ state' = updateConversationState(initializeConversationState(now), message, now)
    /\ lastStage' = state'.currentStage
    /\ ConvUnchanged

ResetConversation ==
    /\ state' = initializeConversationState(now)
    /\ lastStage' = "greeting"
    /\ ConvUnchanged

InitConv ==
    /\ sessions = <<>>
    /\ storage = <<>>
    /\ now = 0
    /\ issued = {}
    /\ chat = NoChat
    /\ state = initializeConversationState(0)
    /\ lastStage = "greeting"
    /\ llm = NoLlm
    /\ merge = NoMerge
    /\ conf = NoConf

NextConv ==
    \/ \E message \in Messages : ProcessUserMessage(message)
    \/ \E message \in Messages : ChatPostTurn(message)
    \/ ResetConversation
    \/ ConvTick

SpecConv == InitConv /\ [][NextConv]_vars

-----------------------------------------------------------------------------
(* One turn of ConversationManager.processUserMessage, await by await; chat
   holds the turn's position and the calls it has made so far, in order *)

\* processUserMessage up to its first await: preprocessMessage,
\* updateConversationState, buildConversationContext, and the call of
\* llmClient.processMessage
TurnBegin(userMessage, candidateProfile) ==
    /\ chat.pc \in {"idle", "returned"}
    /\ state' = updateConversationState(state, userMessage, now)
    /\ lastStage' = state'.currentStage
    /\ chat' = [ pc |-> "llm", message |-> userMessage,
                 context |-> [stage |-> state'.currentStage,
                              candidateProfile |-> candidateProfile],
                 trace |-> << "updateConversationState", "buildConversationContext",
                              "llmClient.processMessage" >> ]
    /\ UNCHANGED <<sessions, storage, now, issued, llm, merge, conf>>

\* llmClient.processMessage has resolved: postProcessResponse, and the call of
\* extractInformationFromConversation
TurnLlmResolved ==
    /\ chat.pc = "llm"
    /\ chat' = [chat EXCEPT !.pc = "extract",
                   !.trace = @ \o << "postProcessResponse",
                                     "extractInformationFromConversation" >>]
    /\ UNCHANGED <<sessions, storage, now, issued, state, lastStage, llm, merge, conf>>

\* the extraction has resolved, or failed and given {}: updateExtractedInfo,
\* analyzeConversationProgress, updateConversationFlow, and the return
TurnExtracted ==
    /\ chat.pc = "extract"
    /\ chat' = [chat EXCEPT !.pc = "returned",
                   !.trace = @ \o << "updateExtractedInfo",
                                     "analyzeConversationProgress",
                                     "updateConversationFlow" >>]
    /\ UNCHANGED <<sessions, storage, now, issued, state, lastStage, llm, merge, conf>>

\* profiles a caller of processUserMessage passes: the default-empty one and
\* one with contact, experience and skills
TurnProfiles ==
    { DefaultProfile(0),
      [DefaultProfile(0) EXCEPT !.name = "Ann", !.experience.years = 3,
                                !.skills = <<[name |-> "JS", confidence |-> 80]>>] }

NextTurn ==
    \/ \E message \in Messages, profile \in TurnProfiles : TurnBegin(message, profile)
    \/ TurnLlmResolved
    \/ TurnExtracted
    \/ ConvTick

SpecTurn == InitConv /\ [][NextTurn]_vars

\* C22: in a turn the extraction and the merge of its result come before the
\* stage is recomputed, and the stage is recomputed before the context is
\* built and the language-model client is called.
C22_ExtractionThenStageThenGateway ==
    chat.pc # "idle"
        => \A i \in DOMAIN chat.trace :
               chat.trace[i] = "llmClient.processMessage"
                   => \E j, k, l \in 1..(i - 1) :
                          /\ j < k /\ k < l
                          /\ chat.trace[j] = "updateExtractedInfo"
                          /\ chat.trace[k] = "updateConversationState"
                          /\ chat.trace[l] = "buildConversationContext"

\* C23: the stage moves on from qualification only in a turn whose profile
\* has a name, an email or a phone, and on from assessment only in a turn
\* whose profile has experience or skills.
C23_StageNeedsProfileFields ==
    [][(state'.currentStage # state.currentStage)
          => LET profile == chat'.context.candidateProfile
             IN  /\ state.currentStage = "qualification"
                        => \/ Truthy(profile.name)
                           \/ Truthy(profile.email)
                           \/ Truthy(profile.phone)
                 /\ state.currentStage = "assessment"
                        => \/ profile.experience.years > 0
                           \/ profile.experience.months > 0
                           \/ Len(profile.skills) > 0]_vars

-----------------------------------------------------------------------------
(* A ConversationManager driven by processUserMessage alone; conf counts the
   calls *)

MaxCalls == 46

\* one processUserMessage call, counted
ProcessUserMessageCounted(userMessage) ==
    /\ conf.calls < MaxCalls
    /\ state' = updateConversationState(state, userMessage, now)
    /\ lastStage' = state'.currentStage
    /\ conf' = [conf EXCEPT !.calls = @ + 1]
    /\ UNCHANGED <<sessions, storage, now, issued, chat, llm, merge>>

InitStages ==
    /\ sessions = <<>>
    /\ storage = <<>>
    /\ now = 0
    /\ issued = {}
    /\ chat = NoChat
    /\ state = initializeConversationState(0)
    /\ lastStage = "greeting"
    /\ llm = NoLlm
    /\ merge = NoMerge
    /\ conf = [pc |-> "idle", calls |-> 0]

NextStages == \E message \in Messages : ProcessUserMessageCounted(message)

SpecStages == InitStages /\ [][NextStages]_vars

\* C26: from greeting with progress 0, after 44 processUserMessage calls of
\* any content the stage is completed, and whenever the stage is completed
\* stageTransitions is 4.
C26_CompletedWithin44Calls ==
    /\ conf.calls >= 44 => state.currentStage = "completed"
    /\ state.currentStage = "completed" => state.stageTransitions = 4

\* the 44th call, the stage completed after four transitions
C26_Witness ==
    /\ conf.calls = 44
    /\ state.currentStage = "completed"
    /\ state.stageTransitions = 4

\* C27: one processUserMessage call keeps the stage or moves it to its
\* immediate successor, a call that moves it leaves stageProgress 0,
\* stageProgress stays within 0..100, and after a call it is 100 only in the
\* stage completed.
C27_OneStepAtATime ==
    [][/\ StageIdx(state'.currentStage) - StageIdx(state.currentStage) \in {0, 1}
       /\ state'.currentStage # state.currentStage => state'.stageProgress = 0
       /\ state'.stageProgress \in 0..100
       /\ state'.stageProgress = 100 => state'.currentStage = "completed"]_vars

\* a call has just moved the stage on from assessment to closing
C27_Witness ==
    /\ conf.calls > 0
    /\ state.currentStage = "closing"
    /\ state.stageProgress = 0
    /\ state.stageTransitions = 3

-----------------------------------------------------------------------------
(* The language model gateway: generateResponse *)

MaxRetries == 3
RetryDelay == 1000

\* HTTP statuses of the provider's answers; 0 is an error that carries none
ProviderStatuses == {200, 0, 401, 429, 500, 503}

RECURSIVE Pow2(_)
Pow2(n) == IF n = 0 THEN 1 ELSE 2 * Pow2(n - 1)

\* a loop that gives up one attempt early
LoopStopsOneEarly(attempt) == attempt < MaxRetries

\* the loop condition attempt <= maxRetries
LoopContinues(attempt) == attempt <= MaxRetries

LlmUnchanged ==
    UNCHANGED <<sessions, storage, now, issued, chat, state, lastStage, merge, conf>>

\* the loop head: the next attempt, or the throw after the loop
LoopHead(l, attempt) ==
    IF LoopContinues(attempt) THEN [l EXCEPT !.pc = "call", !.attempt = attempt]
    ELSE [l EXCEPT !.pc = "thrown", !.attempt = attempt]

\* generateResponse is entered
GenerateResponse ==
    /\ llm.pc = "idle"
    /\ llm' = LoopHead(llm, 1)
    /\ LlmUnchanged

\* an attempt whose catch block backs off and retries on every error
ProviderAnswersRetryingAll ==
    /\ llm.pc = "call"
    /\ LET status == llm.script[llm.calls + 1]
           called == [llm EXCEPT !.calls = @ + 1, !.requestCount = @ + 1]
       IN  llm' =
               IF status = 200
               THEN [called EXCEPT !.pc = "returned", !.response = llm.calls + 1]
               ELSE IF status = 429
               THEN [called EXCEPT !.pc = "delay", !.lastError = status,
                       !.delays = Append(@, RetryDelay * Pow2(llm.attempt - 1))]
               ELSE [called EXCEPT !.pc = "delay", !.lastError = status,
                       !.delays = Append(@, RetryDelay * llm.attempt)]
    /\ LlmUnchanged

\* this.client.chat.completions.create(...) answers the attempt as the
\* provider's script says
ProviderAnswers ==
    /\ llm.pc = "call"
    /\ LET status == llm.script[llm.calls + 1]
           called == [llm EXCEPT !.calls = @ + 1, !.requestCount = @ + 1]
       IN  llm' =
               IF status = 200
               THEN [called EXCEPT !.pc = "returned", !.response = llm.calls + 1]
               ELSE IF status = 429
               THEN [called EXCEPT !.pc = "delay", !.lastError = status,
                       !.delays = Append(@, RetryDelay * Pow2(llm.attempt - 1))]
               ELSE IF status >= 500
               THEN [called EXCEPT !.pc = "delay", !.lastError = status,
                       !.delays = Append(@, RetryDelay * llm.attempt)]
               ELSE [called EXCEPT !.pc = "thrown", !.lastError = status]
    /\ LlmUnchanged

\* await this.delay(delay) is over: attempt++
DelayElapsed ==
    /\ llm.pc = "delay"
    /\ llm' = LoopHead(llm, llm.attempt + 1)
    /\ LlmUnchanged

\* the provider's answers to the successive calls of one generateResponse
Scripts == [1..(MaxRetries + 1) -> ProviderStatuses]

InitLLM ==
    /\ sessions = <<>>
    /\ storage = <<>>
    /\ now = 0
    /\ issued = {}
    /\ chat = NoChat
    /\ state = NoState
    /\ lastStage = "greeting"
    /\ \E script \in Scripts :
           llm = [ pc |-> "idle", script |-> script, attempt |-> 0, calls |-> 0,
                   requestCount |-> 0, lastError |-> 0, delays |-> <<>>,
                   response |-> 0 ]
    /\ merge = NoMerge
    /\ conf = NoConf

NextLLM ==
    \/ GenerateResponse
    \/ ProviderAnswers
    \/ DelayElapsed

SpecLLM == InitLLM /\ [][NextLLM]_vars

LlmDone == llm.pc \in {"returned", "thrown"}

\* the script fails the first k - 1 calls with 429 or a status >= 500 and
\* answers call k
SucceedsAt(script, k) ==
    /\ script[k] = 200
    /\ \A j \in 1..(k - 1) : script[j] = 429 \/ script[j] >= 500

\* C10: when the first k - 1 attempts fail with a retryable error (429 or a
\* status >= 500) and attempt k <= maxRetries succeeds, generateResponse
\* returns the response of attempt k after exactly k provider calls.
C10_RetriesUntilSuccess ==
    \A k \in 1..MaxRetries :
        (LlmDone /\ SucceedsAt(llm.script, k))
            => llm.pc = "returned" /\ llm.response = k /\ llm.calls = k

C10_Witness ==
    /\ llm.pc = "returned"
    /\ SucceedsAt(llm.script, MaxRetries)
    /\ llm.script[1] = 429 /\ llm.script[2] = 503
    /\ llm.calls = MaxRetries

\* the script fails the first k - 1 calls with 429 or a status >= 500 and
\* fails call k with an error of no retryable class
FailsFinallyAt(script, k) ==
    /\ script[k] # 200 /\ script[k] # 429 /\ script[k] < 500
    /\ \A j \in 1..(k - 1) : script[j] = 429 \/ script[j] >= 500

\* C11: an error that is neither a 429 nor a status >= 500 is not retried:
\* the call that meets it is the last provider call, no backoff delay follows
\* it, and generateResponse throws that error.
C11_NonRetryableNotRetried ==
    \A k \in 1..MaxRetries :
        (LlmDone /\ FailsFinallyAt(llm.script, k))
            => /\ llm.pc = "thrown"
               /\ llm.calls = k
               /\ Len(llm.delays) = k - 1
               /\ llm.lastError = llm.script[k]

C11_Witness ==
    /\ llm.pc = "thrown"
    /\ FailsFinallyAt(llm.script, 1) /\ llm.script[1] = 401
    /\ llm.calls = 1 /\ llm.delays = <<>> /\ llm.lastError = 401

\* C21: the delay waited after the n-th failed attempt is retryDelay times
\* 2^(n-1), for a 429 as for a status >= 500.
C21_BackoffIsExponential ==
    \A n \in 1..Len(llm.delays) : llm.delays[n] = RetryDelay * Pow2(n - 1)

-----------------------------------------------------------------------------
(* The language model gateway: processMessage around generateResponse *)

\* the throw of checkRateLimit: fewer than 6000 ms since the last request
\* and more than 10 requests counted
Throttled(requestCount, timeSinceLastRequest) ==
    timeSinceLastRequest < 6000 /\ requestCount > 10

\* this.requestCount after a checkRateLimit that does not throw
CountAfterCheck(requestCount, timeSinceLastRequest) ==
    IF timeSinceLastRequest > 60000 THEN 0 ELSE requestCount

\* the text generateFallbackResponse builds, by the stage of the context
FallbackContent(stage) ==
    CASE stage = "greeting" -> "fallback: welcome"
      [] stage = "qualification" -> "fallback: tell me about your background"
      [] OTHER -> "fallback: please rephrase"

\* generateFallbackResponse: content and confidence, in hundredths
generateFallbackResponse(stage) ==
    [content |-> FallbackContent(stage), confidence |-> 30]

\* calculateConfidence, in hundredths, of a content of the given length that
\* names the job title, the company and count of the six professional words
calculateConfidence(length, hasTitle, hasCompany, professionalCount) ==
    Min(70 + (IF length > 100 THEN 10 ELSE 0) + (IF length > 200 THEN 10 ELSE 0)
           + (IF hasTitle THEN 10 ELSE 0) + (IF hasCompany THEN 10 ELSE 0)
           + professionalCount * 5,
        100)

\* postProcessResponse of a provider answer: a short text with none of the
\* words calculateConfidence rewards
postProcessResponse(response) ==
    [content |-> "response", confidence |-> calculateConfidence(40, FALSE, FALSE, 0)]

\* a processMessage whose throttle check sits outside its try block
ThrottleRejectionRaised(l) == [l EXCEPT !.pc = "raised"]

\* the catch block of processMessage on the throw of checkRateLimit
ThrottleRejection(l) ==
    [l EXCEPT !.pc = "done", !.result = generateFallbackResponse(l.stage)]

\* processMessage is entered: checkRateLimit, buildPrompt, and the call of
\* generateResponse up to its first attempt
ProcessMessage ==
    /\ llm.pc = "start"
    /\ llm' = IF Throttled(llm.requestCount, llm.timeSinceLastRequest)
              THEN ThrottleRejection(llm)
              ELSE LoopHead([llm EXCEPT !.requestCount =
                                CountAfterCheck(@, llm.timeSinceLastRequest)], 1)
    /\ LlmUnchanged

\* generateResponse has returned or thrown: processMessage returns the
\* processed response or, from its catch block, the fallback
ProcessMessageSettles ==
    /\ llm.pc \in {"returned", "thrown"}
    /\ llm' = [llm EXCEPT
                 !.pc = "done",
                 !.result = IF llm.pc = "returned" THEN postProcessResponse(llm.response)
                            ELSE generateFallbackResponse(llm.stage)]
    /\ LlmUnchanged

\* provider answers, stages and throttle readings of one processMessage
ProcessScripts == [1..(MaxRetries + 1) -> {200, 401, 429, 500}]
ProcessStages == {"greeting", "qualification", "closing"}
EntryCounts == {0, 11}
EntryGaps == {1000, 61000}

InitProcess ==
    /\ sessions = <<>>
    /\ storage = <<>>
    /\ now = 0
    /\ issued = {}
    /\ chat = NoChat
    /\ state = NoState
    /\ lastStage = "greeting"
    /\ \E script \in ProcessScripts, stage \in ProcessStages,
          count \in EntryCounts, gap \in EntryGaps :
           llm = [ pc |-> "start", script |-> script, attempt |-> 0, calls |-> 0,
                   requestCount |-> count, lastError |-> 0, delays |-> <<>>,
                   response |-> 0, stage |-> stage, entryCount |-> count,
                   timeSinceLastRequest |-> gap,
                   result |-> [content |-> "", confidence |-> 0] ]
    /\ merge = NoMerge
    /\ conf = NoConf

NextProcess ==
    \/ ProcessMessage
    \/ ProviderAnswers
    \/ DelayElapsed
    \/ ProcessMessageSettles

SpecProcess == InitProcess /\ [][NextProcess]_vars

\* every one of the maxRetries attempts fails with 429 or a status >= 500
FailsEveryAttempt(script) ==
    \A j \in 1..MaxRetries : script[j] = 429 \/ script[j] >= 500

\* the call cannot yield a provider answer: the throttle rejects it, an
\* attempt fails with a non-retryable error, or every attempt fails
CannotAnswer ==
    \/ Throttled(llm.entryCount, llm.timeSinceLastRequest)
    \/ FailsEveryAttempt(llm.script)
    \/ \E k \in 1..MaxRetries : FailsFinallyAt(llm.script, k)

\* C12: processMessage never raises: when the throttle rejects the call,
\* when an attempt fails with a non-retryable error or when all maxRetries
\* attempts fail, it returns the fallback text of the context's stage with
\* confidence 0.3, and it makes at most maxRetries provider calls.
C12_ProcessMessageFallsBack ==
    /\ llm.pc # "raised"
    /\ llm.calls <= MaxRetries
    /\ (llm.pc = "done" /\ CannotAnswer)
           => /\ llm.result.content = FallbackContent(llm.stage)
              /\ llm.result.confidence = 30

C12_Witness ==
    /\ llm.pc = "done"
    /\ ~Throttled(llm.entryCount, llm.timeSinceLastRequest)
    /\ FailsEveryAttempt(llm.script)
    /\ llm.calls = MaxRetries
    /\ llm.stage = "qualification"
    /\ llm.result = generateFallbackResponse("qualification")

-----------------------------------------------------------------------------
(* mergeProfiles as a function of its arguments *)

ScalarKeys == {"name", "email", "phone"}

\* the members ks of an object
Restrict(obj, ks) == [k \in ks |-> obj[k]]

\* profiles a session holds: the default profile with some scalars set
\* and the default profile with the experience a seed of createSession or an
\* earlier merge left, or the skills a seed or an earlier append left
\* (confidences in hundredths)
ExistingProfiles ==
    { [DefaultProfile(0) EXCEPT !.name = n, !.email = e, !.phone = ph] :
        n \in {Undef, "", "Ann"}, e \in {Undef, "ann@x.io"}, ph \in {Undef, "555"} }
    \cup { [DefaultProfile(0) EXCEPT !.experience = x] :
             x \in { [years |-> 3],
                     [years |-> 2, months |-> 6, description |-> ""] } }
    \cup { [DefaultProfile(0) EXCEPT !.skills = sk] :
             sk \in { <<[name |-> "JS", confidence |-> 80]>>,
                      <<[name |-> "JS", confidence |-> 90],
                        [name |-> "js", confidence |-> 50]>> } }

\* partial profiles of a request: any subset of the scalars, set or empty
\* or an experience object, or a skill list
NewProfiles ==
    { Restrict([name |-> n, email |-> e, phone |-> ph], ks) :
        n \in {"", "Bob"}, e \in {"bob@x.io"}, ph \in {"", "777"},
        ks \in SUBSET ScalarKeys }
    \cup { [experience |-> Restrict([years |-> y, months |-> mo], ks)] :
             y \in {1, 5}, mo \in {3, 8}, ks \in SUBSET {"years", "months"} }
    \cup { [skills |-> sk] :
             sk \in { <<>>,
                      <<[name |-> "js", confidence |-> 80]>>,
                      <<[name |-> "js", confidence |-> 95], [name |-> "React"]>>,
                      <<[name |-> "React", confidence |-> 40],
                        [name |-> "react", confidence |-> 60]>> } }

MergeUnchanged ==
    UNCHANGED <<sessions, storage, now, issued, chat, state, lastStage, llm, conf>>

\* mergeProfiles(existingProfile, newProfile, strategy) is evaluated
MergeProfilesCall ==
    /\ merge.pc = "args"
    /\ merge' = [merge EXCEPT
                   !.pc = "done",
                   !.result = mergeProfiles(merge.existingProfile, merge.newProfile,
                                            merge.strategy, now)]
    /\ MergeUnchanged

InitMerge ==
    /\ sessions = <<>>
    /\ storage = <<>>
    /\ now = 0
    /\ issued = {}
    /\ chat = NoChat
    /\ state = NoState
    /\ lastStage = "greeting"
    /\ llm = NoLlm
    /\ \E existingProfile \in ExistingProfiles, newProfile \in NewProfiles,
          strategy \in MergeStrategies :
           merge = [ pc |-> "args", existingProfile |-> existingProfile,
                     newProfile |-> newProfile, strategy |-> strategy,
                     result |-> existingProfile ]
    /\ conf = NoConf

NextMerge == MergeProfilesCall

SpecMerge == InitMerge /\ [][NextMerge]_vars

\* C8: under the merge strategy a name, email or phone the existing profile
\* has set is kept as it is, and one it has not set is taken from the new
\* data when the new data sets it.
C8_MergeKeepsSetScalars ==
    (merge.pc = "done" /\ merge.strategy = "merge")
        => \A k \in ScalarKeys :
               /\ Truthy(merge.existingProfile[k])
                      => merge.result[k] = merge.existingProfile[k]
               /\ (~Truthy(merge.existingProfile[k])
                       /\ Truthy(StrField(merge.newProfile, k)))
                      => merge.result[k] = merge.newProfile[k]

C8_Witness ==
    /\ merge.pc = "done" /\ merge.strategy = "merge"
    /\ merge.existingProfile.name = "Ann" /\ merge.existingProfile.phone = Undef
    /\ StrField(merge.newProfile, "name") = "Bob"
    /\ StrField(merge.newProfile, "phone") = "777"
    /\ merge.result.name = "Ann" /\ merge.result.phone = "777"

\* the larger of two numbers of which undefined counts as 0
MaxDefined(a, b) == IF OrZero(a) > OrZero(b) THEN OrZero(a) ELSE OrZero(b)

\* C18: under the merge strategy with an experience object in the new data
\* the merged years is the larger of the existing and the new years, and the
\* merged months the larger of the existing and the new months.
C18_ExperienceTakesMaximum ==
    (merge.pc = "done" /\ merge.strategy = "merge"
         /\ "experience" \in DOMAIN merge.newProfile)
        => /\ merge.result.experience.years
                  = MaxDefined(NumField(merge.existingProfile.experience, "years"),
                               NumField(merge.newProfile.experience, "years"))
           /\ merge.result.experience.months
                  = MaxDefined(NumField(merge.existingProfile.experience, "months"),
                               NumField(merge.newProfile.experience, "months"))

\* the entries of the skill list l whose lower-cased name is k
Named(l, k) == {l[i] : i \in {j \in 1..Len(l) : ToLowerCase(l[j].name) = k}}

-----------------------------------------------------------------------------
(* The chat route's rate limiter. The clock now counts units of 20 seconds
   here; chat is the rateLimitStore, an entry being <<>> when the key has
   none. *)

MaxClock == 8

\* 60 * 1000 ms, in units of 20 seconds
RATE_LIMIT_WINDOW == 3
RATE_LIMIT_MAX_REQUESTS == 10

\* client identifiers (request.ip, or the x-forwarded-for header)
Clients == {"10.0.0.1", "10.0.0.2"}

\* a limit that admits one request more
LimitReachedLate(entry) == entry.count > RATE_LIMIT_MAX_REQUESTS

\* entry.count >= RATE_LIMIT_MAX_REQUESTS
LimitReached(entry) == entry.count >= RATE_LIMIT_MAX_REQUESTS

\* checkRateLimit(identifier) at time t: the store it leaves and its result
checkRateLimit(rateLimitStore, identifier, t) ==
    LET entry == rateLimitStore[identifier]
    IN  IF entry = <<>> \/ t > entry[1].resetTime
        THEN [ store |-> [rateLimitStore EXCEPT ![identifier] =
                             <<[count |-> 1, resetTime |-> t + RATE_LIMIT_WINDOW]>>],
               allowed |-> TRUE,
               remaining |-> RATE_LIMIT_MAX_REQUESTS - 1,
               resetTime |-> t + RATE_LIMIT_WINDOW ]
        ELSE IF LimitReached(entry[1])
        THEN [ store |-> rateLimitStore, allowed |-> FALSE, remaining |-> 0,
               resetTime |-> entry[1].resetTime ]
        ELSE [ store |-> [rateLimitStore EXCEPT ![identifier][1].count = @ + 1],
               allowed |-> TRUE,
               remaining |-> RATE_LIMIT_MAX_REQUESTS - (entry[1].count + 1),
               resetTime |-> entry[1].resetTime ]

\* a chat POST of the client reaches the rate limiter
ChatPostRateLimit(identifier) ==
    /\ chat' = checkRateLimit(chat, identifier, now).store
    /\ UNCHANGED <<sessions, storage, now, issued, state, lastStage, llm, merge, conf>>

\* Date.now() advances
RateTick ==
    /\ \E t \in (now + 1)..MaxClock : now' = t
    /\ UNCHANGED <<sessions, storage, issued, chat, state, lastStage, llm, merge, conf>>

InitRate ==
    /\ sessions = <<>>
    /\ storage = <<>>
    /\ now = 0
    /\ issued = {}
    /\ chat = [identifier \in Clients |-> <<>>]
    /\ state = NoState
    /\ lastStage = "greeting"
    /\ llm = NoLlm
    /\ merge = NoMerge
    /\ conf = NoConf

NextRate ==
    \/ \E identifier \in Clients : ChatPostRateLimit(identifier)
    \/ RateTick

SpecRate == InitRate /\ [][NextRate]_vars

\* C24: for every client the stored count never exceeds 10; a request before
\* resetTime of a client that has used its 10 is denied with remaining 0 and
\* the window's resetTime, and leaves the store as it is; one before
\* resetTime of a client that has not is admitted and counted in the same
\* window; the first request after resetTime is admitted and opens a window
\* of 60 seconds with count 1.
C24_TenPerWindow ==
    \A identifier \in Clients :
        LET entry == chat[identifier]
            check == checkRateLimit(chat, identifier, now)
        IN  entry # <<>>
                => /\ entry[1].count \in 1..RATE_LIMIT_MAX_REQUESTS
                   /\ (now < entry[1].resetTime /\ entry[1].count = RATE_LIMIT_MAX_REQUESTS)
                          => /\ ~check.allowed /\ check.remaining = 0
                             /\ check.resetTime = entry[1].resetTime
                             /\ check.store = chat
                   /\ (now < entry[1].resetTime /\ entry[1].count < RATE_LIMIT_MAX_REQUESTS)
                          => /\ check.allowed
                             /\ check.store[identifier][1] =
                                    [count |-> entry[1].count + 1,
                                     resetTime |-> entry[1].resetTime]
                   /\ now > entry[1].resetTime
                          => /\ check.allowed
                             /\ check.remaining = RATE_LIMIT_MAX_REQUESTS - 1
                             /\ check.store[identifier][1] =
                                    [count |-> 1, resetTime |-> now + RATE_LIMIT_WINDOW]

\* a client that has used its 10 requests and asks again within the window,
\* while the other client's window has run out
C24_Witness ==
    \E a, b \in Clients :
        /\ a # b /\ chat[a] # <<>> /\ chat[b] # <<>>
        /\ chat[a][1].count = RATE_LIMIT_MAX_REQUESTS /\ now < chat[a][1].resetTime
        /\ ~checkRateLimit(chat, a, now).allowed
        /\ now > chat[b][1].resetTime

-----------------------------------------------------------------------------
(* The middleware's rate limiter, on the same clock; chat is the
   rateLimitStore of one withRateLimiting wrapper *)

\* the rateLimitConfig of the wrapper: the default window of 60000 ms (3
\* units) and a maxRequests of 3
rateLimitConfig == [windowMs |-> 3, maxRequests |-> 3]

\* one request through the wrapper at time t: the store it leaves, the status
\* of a rejection (0 when the handler is called), and retryAfter in seconds
withRateLimiting(rateLimitStore, key, t) ==
    LET windowStart == t - rateLimitConfig.windowMs
        entry == rateLimitStore[key]
        live == entry # <<>> /\ entry[1].resetTime > windowStart
        counted == IF live
                   THEN [rateLimitStore EXCEPT ![key][1].count = @ + 1]
                   ELSE [rateLimitStore EXCEPT ![key] =
                            <<[count |-> 1,
                               resetTime |-> t + rateLimitConfig.windowMs]>>]
        cleaned == [k \in DOMAIN counted |->
                       IF counted[k] # <<>> /\ counted[k][1].resetTime <= windowStart
                       THEN <<>> ELSE counted[k]]
    IN  IF live /\ entry[1].count >= rateLimitConfig.maxRequests
        THEN [ store |-> rateLimitStore, status |-> 429,
               retryAfter |-> 20 * (entry[1].resetTime - t) ]
        ELSE [ store |-> cleaned, status |-> 0, retryAfter |-> 0 ]

\* a request of the client goes through the wrapper
MiddlewareRequest(key) ==
    /\ chat' = withRateLimiting(chat, key, now).store
    /\ UNCHANGED <<sessions, storage, now, issued, state, lastStage, llm, merge, conf>>

NextMiddleware ==
    \/ \E key \in Clients : MiddlewareRequest(key)
    \/ RateTick

SpecMiddleware == InitRate /\ [][NextMiddleware]_vars

\* C25: a stored count never exceeds maxRequests; a client that has used up
\* maxRequests is admitted once windowMs has elapsed since the first request
\* of its window, that is from resetTime on; and a rejection's retryAfter is
\* not negative.
C25_WindowEndsAfterWindowMs ==
    \A key \in Clients :
        LET entry == chat[key]
            request == withRateLimiting(chat, key, now)
        IN  entry # <<>>
                => /\ entry[1].count <= rateLimitConfig.maxRequests
                   /\ now >= entry[1].resetTime => request.status # 429
                   /\ request.status = 429 => request.retryAfter >= 0

-----------------------------------------------------------------------------
(* The client's chat store; chat is the store's state, with the position of
   a pending sendMessage, the number of message ids handed out and the number
   of sendMessage calls the user made; storage is the chat-sessions item *)

MaxStoreMessages == 4

\* contents a user types
Contents == {"hello", "ok"}

\* addMessage(message) at time t: the store's message list and the item after
\* it
addMessage(store, item, message, t) ==
    LET messages == Append(store.messages, message)
        updatedSession == Spread(store.currentSession[1],
                                 [messages |-> Append(messages, message),
                                  updatedAt |-> Date(t)])
    IN  [ messages |-> messages,
          item |-> IF store.currentSession # <<>>
                   THEN saveSessionToStorage(item, updatedSession, t)
                   ELSE item ]

\* sendMessage(content) up to its await of fetch, on the store whose message
\* list is messages: the session checks, then addMessage(userMessage); sent
\* is the number of messages the user has sent by then
SendMessageFrom(messages, content, sent) ==
    /\ chat.pc = "idle"
    /\ chat.currentSession # <<>>
    /\ validateSession(chat.currentSession[1], now)
    /\ Len(messages) < MaxStoreMessages
    /\ LET userMessage == [id |-> chat.ids + 1, content |-> content, role |-> "user"]
           added == addMessage([chat EXCEPT !.messages = messages], storage,
                               userMessage, now)
       IN  /\ chat' = [chat EXCEPT !.messages = added.messages, !.pc = "fetch",
                                   !.ids = @ + 1, !.sent = sent]
           /\ storage' = added.item
    /\ UNCHANGED <<sessions, now, issued, state, lastStage, llm, merge, conf>>

\* the user sends a message
SendMessage(content) ==
    /\ chat.pc = "idle"
    /\ SendMessageFrom(chat.messages, content, chat.sent + 1)

\* the fetch has resolved with an ok response, and addMessage(assistantMessage)
\* follows, or it has not, and setError follows
SendMessageResume(ok) ==
    /\ chat.pc = "fetch"
    /\ LET assistantMessage == [id |-> chat.ids + 1, content |-> "reply",
                                role |-> "assistant"]
           added == addMessage(chat, storage, assistantMessage, now)
       IN  IF ok
           THEN /\ chat' = [chat EXCEPT !.messages = added.messages, !.pc = "idle",
                                        !.ids = @ + 1]
                /\ storage' = added.item
           ELSE /\ chat' = [chat EXCEPT !.pc = "idle"]
                /\ UNCHANGED storage
    /\ UNCHANGED <<sessions, now, issued, state, lastStage, llm, merge, conf>>

\* retryLastMessage(): the last assistant message is removed when it is the
\* last message, and the last user message's content is sent again
RetryLastMessage ==
    LET messages == chat.messages
        users == SelectSeq(messages, LAMBDA msg : msg.role = "user")
        kept == IF messages # <<>> /\ messages[Len(messages)].role = "assistant"
                THEN SubSeq(messages, 1, Len(messages) - 1) ELSE messages
    IN  /\ users # <<>>
        /\ SendMessageFrom(kept, users[Len(users)].content, chat.sent)

InitStore ==
    /\ sessions = <<>>
    /\ storage = <<>>
    /\ now = 0
    /\ issued = {}
    /\ chat = [ pc |-> "idle", messages |-> <<>>, ids |-> 0, sent |-> 0,
                currentSession |-> <<NewSession("s1", Empty, Undef, 0)>> ]
    /\ state = NoState
    /\ lastStage = "greeting"
    /\ llm = NoLlm
    /\ merge = NoMerge
    /\ conf = NoConf

NextStore ==
    \/ \E content \in Contents : SendMessage(content)
    \/ \E ok \in BOOLEAN : SendMessageResume(ok)
    \/ RetryLastMessage

SpecStore == InitStore /\ [][NextStore]_vars

\* C30: the store holds one user message for each message the user sent, a
\* retry adding none, and the session written to storage holds each message
\* once, as the store's message list does.
C30_EachMessageOnce ==
    /\ Len(SelectSeq(chat.messages, LAMBDA msg : msg.role = "user")) <= chat.sent
    /\ \A i \in 1..Len(storage) :
           /\ storage[i].messages = chat.messages
           /\ \A j, k \in 1..Len(storage[i].messages) :
                  storage[i].messages[j].id = storage[i].messages[k].id => j = k

-----------------------------------------------------------------------------
(* The extractor's overall confidence, in thousandths *)

\* fields of the extracted data of the model and the base confidence of each
ExtractedFields == {"name", "email", "skills", "experience"}

fieldConfidences(field) ==
    CASE field = "name" -> 800
      [] field = "email" -> 950
      [] field = "skills" -> 750
      [] field = "experience" -> 850
      [] OTHER -> 700

\* a value of the extracted data, by what the adjustment reads of it: a
\* string or an array that is empty, that is longer than the 50 characters or
\* 5 elements the code compares with, or in between; or a number
ValueKinds(field) ==
    IF field = "experience" THEN {"number"} ELSE {"empty", "short", "long"}

ExtractedDatas ==
    UNION { { d \in [ks -> {"empty", "short", "long", "number"}] :
                \A k \in ks : d[k] \in ValueKinds(k) } :
            ks \in SUBSET ExtractedFields }

adjustedConfidence(field, value) ==
    CASE value = "empty" -> fieldConfidences(field) \div 2
      [] value = "long" -> (fieldConfidences(field) * 11) \div 10
      [] OTHER -> fieldConfidences(field)

RECURSIVE SumOver(_, _)
\* the sum of the adjusted confidences of the members fields of data
SumOver(data, fields) ==
    IF fields = {} THEN 0
    ELSE LET f == CHOOSE f \in fields : TRUE
         IN  adjustedConfidence(f, data[f]) + SumOver(data, fields \ {f})

\* calculateOverallConfidence(data): totalConfidence and fieldCount, whose
\* quotient it returns (0 with no field)
calculateOverallConfidence(data) ==
    [ totalConfidence |-> SumOver(data, DOMAIN data),
      fieldCount |-> Cardinality(DOMAIN data) ]

ConfUnchanged ==
    UNCHANGED <<sessions, storage, now, issued, chat, state, lastStage, llm, merge>>

\* testExtraction / extractCandidateInfo computes the confidence of its data
OverallConfidenceCall ==
    /\ conf.pc = "args"
    /\ conf' = [conf EXCEPT !.pc = "done",
                            !.result = calculateOverallConfidence(conf.data)]
    /\ ConfUnchanged

InitConf ==
    /\ sessions = <<>>
    /\ storage = <<>>
    /\ now = 0
    /\ issued = {}
    /\ chat = NoChat
    /\ state = NoState
    /\ lastStage = "greeting"
    /\ llm = NoLlm
    /\ merge = NoMerge
    /\ \E data \in ExtractedDatas :
           conf = [ pc |-> "args", data |-> data,
                    result |-> [totalConfidence |-> 0, fieldCount |-> 0] ]

NextConf == OverallConfidenceCall

SpecConf == InitConf /\ [][NextConf]_vars

\* C9: a confidence the system computes lies in [0, 1]: the overall
\* confidence of extracted data, totalConfidence / fieldCount, is at least 0
\* and at most 1 (1000 thousandths).
C9_OverallConfidenceInUnitInterval ==
    conf.pc = "done"
        => /\ conf.result.totalConfidence >= 0
           /\ conf.result.totalConfidence <= 1000 * conf.result.fieldCount

=============================================================================
